---- MODULE Spec2Model ----
(***************************************************************************)
(* Model of the flux Registrar (src/registration/registrar.go): the        *)
(* bounded-retry registration protocol (registerWithRetry), Start, the     *)
(* heartbeat goroutine (runHeartbeatLoop) and Stop, together with the      *)
(* environment they run against (registry call outcomes, timers, the       *)
(* ticker and cancellation of the outer context).                          *)
(*                                                                         *)
(* Three threads of control exist: "start" (the caller of Start), "loop"   *)
(* (the goroutine launched by Start) and "stop" (the caller of Stop).      *)
(* A registry call is split in two steps, its issue and its return, so     *)
(* that "in flight" is a state.  A Go select is a step that may take any   *)
(* branch whose channel is ready.                                          *)
(***************************************************************************)
EXTENDS Integers, Sequences, FiniteSets, TLC

\* ------------------------------------------------------------------ bounds
RetriesBound == 3   \* Config.MaxRetries ranges over 0..RetriesBound
DelayBound == 1     \* Config.RetryDelay ranges over 0..DelayBound
MaxTicks == 2       \* the ticker delivers at most MaxTicks ticks
MaxCloses == 3      \* Close is invoked at most MaxCloses times on one client
MaxClientCalls == 3 \* at most MaxClientCalls other calls are made on one client
ShiftBound == 66    \* MaxRetries up to ShiftBound when the wait is computed in 64 bits

\* ------------------------------------------------------------------- state
VARIABLES
    MaxRetries,      \* Config.MaxRetries (validated: >= 0)
    RetryDelay,      \* Config.RetryDelay (validated: >= 0)
    pc,              \* position of each thread of control
    attempt,         \* registerWithRetry's loop index i, per caller
    timerFired,      \* the time.After channel of the caller's backoff wait is ready
    regCalls,        \* client.Register calls issued in the caller's current/last run
    waits,           \* durations of the backoff waits entered in that run
    result,          \* how that run returned: "none" | "ok" | "exhausted" | "cancelled"
    ctxDone,         \* the outer context passed to Start is cancelled
    stopHeartbeat,   \* r.stopHeartbeat is closed
    wg,              \* r.wg counter
    tickReady,       \* ticker.C holds a tick
    ticks,           \* ticks delivered so far
    hbCalls,         \* client.SendHeartbeat calls issued
    hbErr,           \* err of the tick's SendHeartbeat: "none" | "ok" | "fail"
    healthy,         \* the registry has become available for good: every call succeeds
    deregCalls,      \* client.Deregister calls issued
    deregResult,     \* "none" | "ok" | "fail"
    closeCalls,      \* client.Close calls
    gauge,           \* RegistrarStateGauge: -1 (never set), 0, 1
    ctxLogged,       \* the loop logged "stopped due to context cancellation"
    cancelledInWait, \* history: the outer context was cancelled during a wait of the run
    stopAt,          \* history: position of the loop when Stop closed stopHeartbeat
    cfg,             \* the *Config handed to NewRegistrar
    newOut,          \* what NewRegistrar returned: "pending" | "registrar" | an error
    transport,       \* the registry client's implementation: "http" | "grpc"
    connNil,         \* grpcClient.conn == nil (always so for the HTTP client)
    connState,       \* connectivity state of grpcClient.conn
    closeErr,        \* what the last Close returned: "none" | "nil" | an error
    closes,          \* Close invocations on the client
    clientCalls,     \* other calls made on the client
    lastCall,        \* the method of the last such call, "none" before the first
    callErr,         \* what that call returned: "none" | "nil" | "error"
    delayNs,         \* config.RetryDelay as a time.Duration (nanoseconds)
    retries,         \* config.MaxRetries of the run whose waits are computed
    idx,             \* the for loop's i: the waits of attempts 0..idx-1 are computed
    wait64,          \* the wait of attempt idx-1, as the 1 bits of the int64
    prevWait64       \* the wait of attempt idx-2

vars == <<MaxRetries, RetryDelay, pc, attempt, timerFired, regCalls, waits, result,
          ctxDone, stopHeartbeat, wg, tickReady, ticks, hbCalls, hbErr, healthy,
          deregCalls,
          deregResult, closeCalls, gauge, ctxLogged, cancelledInWait, stopAt,
          cfg, newOut, transport, connNil, connState, closeErr, closes, clientCalls,
          lastCall, callErr, delayNs, retries, idx, wait64, prevWait64>>

cfgVars == <<MaxRetries, RetryDelay>>
ctorVars == <<cfg, newOut>>
clientVars == <<transport, connNil, connState, closeErr, closes, clientCalls,
                lastCall, callErr>>
backoffVars == <<delayNs, retries, idx, wait64, prevWait64>>
libVars == <<ctorVars, clientVars, backoffVars>>
runVars == <<pc, attempt, timerFired, regCalls, waits, result, ctxDone, stopHeartbeat,
             wg, tickReady, ticks, hbCalls, hbErr, healthy, deregCalls, deregResult,
             closeCalls, gauge, ctxLogged, cancelledInWait, stopAt>>
retryVars == <<attempt, timerFired, regCalls, waits, result, cancelledInWait>>
stopVars == <<stopHeartbeat, deregCalls, deregResult, closeCalls, stopAt>>
tickVars == <<tickReady, ticks, hbCalls, hbErr>>

Threads == {"start", "loop", "stop"}
RetryThreads == {"start", "loop"}

\* ----------------------------------------------------------------- helpers

\* an off-by-one loop condition (i <= MaxRetries)
HasAttemptOffByOne(i) == i <= MaxRetries

\* registerWithRetry's loop condition: i < r.config.MaxRetries
HasAttempt(i) == i < MaxRetries

\* a constant backoff: the delay is not doubled per attempt
BackoffConstant(i) == RetryDelay

\* the backoff duration r.config.RetryDelay * time.Duration(1 << i)
Backoff(i) == RetryDelay * (2 ^ i)

\* error values of registerWithRetry
ExhaustedError == "exhausted"
CancelError == "cancelled"

\* a gauge that records only exhaustion as a failure
GaugeOfCancelledAsOk(res) == IF res = "exhausted" THEN 0 ELSE 1

\* the gauge value recorded for an outcome of registerWithRetry
GaugeOf(res) == IF res = "ok" THEN 1 ELSE 0

\* where the caller continues when registerWithRetry returns
AfterRetry(t) == IF t = "start" THEN "launch" ELSE "select"

\* a heartbeat loop that returns when its re-registration fails
ReturnToExitOnFailure(t, res) ==
    /\ pc' = [pc EXCEPT ![t] = IF t = "loop" /\ res # "ok" THEN "exited"
                                 ELSE AfterRetry(t)]
    /\ result' = [result EXCEPT ![t] = res]
    /\ gauge' = GaugeOf(res)

\* registerWithRetry returns res to caller t, which records the outcome
ReturnTo(t, res) ==
    /\ pc' = [pc EXCEPT ![t] = AfterRetry(t)]
    /\ result' = [result EXCEPT ![t] = res]
    /\ gauge' = GaugeOf(res)

\* one evaluation of the loop head at index i: issue the next Register call,
\* or fall out of the loop and return the retries-exhausted error
RetryIteration(t, i, calls) ==
    /\ attempt' = [attempt EXCEPT ![t] = i]
    /\ IF HasAttempt(i)
       THEN /\ pc' = [pc EXCEPT ![t] = "reg_call"]
            /\ regCalls' = [regCalls EXCEPT ![t] = calls + 1]
            /\ result' = [result EXCEPT ![t] = "none"]
            /\ gauge' = gauge
       ELSE /\ regCalls' = [regCalls EXCEPT ![t] = calls]
            /\ ReturnTo(t, ExhaustedError)

\* the results a registry call can return: err == nil (TRUE) or an error
Outcomes == IF healthy THEN {TRUE} ELSE BOOLEAN

\* ------------------------------------------------------------------- Init
\* NewRegistrar rejecting MaxRetries = 0 (<= instead of <)
NewRegistrarRejectsZeroRetries(c) ==
    IF c.isNil THEN "err_nil_config"
    ELSE IF c.RegistryURL = "" THEN "err_registry_url"
    ELSE IF c.HeartbeatInterval <= 0 THEN "err_heartbeat_interval"
    ELSE IF c.CallTimeout <= 0 THEN "err_call_timeout"
    ELSE IF c.MaxRetries <= 0 THEN "err_max_retries"
    ELSE IF c.RetryDelay < 0 THEN "err_retry_delay"
    ELSE IF c.RegistryType = "http" THEN "registrar"
    ELSE IF c.RegistryType = "grpc"
         THEN (IF c.dialFails THEN "err_grpc_client" ELSE "registrar")
    ELSE "err_registry_type"

\* NewRegistrar(instance, cfg): the checks in the order of the code; the result
\* is "registrar" (a *Registrar and a nil error) or the error (and no Registrar)
NewRegistrar(c) ==
    IF c.isNil THEN "err_nil_config"
    ELSE IF c.RegistryURL = "" THEN "err_registry_url"
    ELSE IF c.HeartbeatInterval <= 0 THEN "err_heartbeat_interval"
    ELSE IF c.CallTimeout <= 0 THEN "err_call_timeout"
    ELSE IF c.MaxRetries < 0 THEN "err_max_retries"
    ELSE IF c.RetryDelay < 0 THEN "err_retry_delay"
    ELSE IF c.RegistryType = "http" THEN "registrar"
    ELSE IF c.RegistryType = "grpc"
         THEN (IF c.dialFails THEN "err_grpc_client" ELSE "registrar")
    ELSE "err_registry_type"

\* the configurations tried on NewRegistrar; isNil stands for cfg == nil and
\* dialFails for registry.NewGRPCClient returning an error
CfgInputs ==
    [isNil : BOOLEAN,
     RegistryURL : {"", "registry:8500"},
     RegistryType : {"http", "grpc", "etcd"},
     HeartbeatInterval : -1..1,
     CallTimeout : -1..1,
     MaxRetries : -1..RetriesBound,
     RetryDelay : -1..DelayBound,
     dialFails : BOOLEAN]

\* a configuration NewRegistrar accepts, with the given retry settings
AcceptedCfg(maxRetries, retryDelay) ==
    [isNil |-> FALSE, RegistryURL |-> "registry:8500", RegistryType |-> "http",
     HeartbeatInterval |-> 1, CallTimeout |-> 1, MaxRetries |-> maxRetries,
     RetryDelay |-> retryDelay, dialFails |-> FALSE]

\* time.Duration is an int64
Width == 64

\* the int64 0; an int64 is written as the set of the positions of its 1 bits
Zero64 == {}

\* the int64 of a non-negative number below 2^31
ToBits(n) == {k \in 0..30 : (n \div (2 ^ k)) % 2 = 1}

\* r.config.RetryDelay * time.Duration(1 << i): the product modulo 2^64, which
\* is the delay's bits moved up by i places (1 << i is 0 from i = 64 on)
Wait64(d, i) == {k \in 0..(Width - 1) : k >= i /\ (k - i) \in ToBits(d)}

\* the int64 is negative: its sign bit is set
Negative64(a) == (Width - 1) \in a

\* a < b as int64
Less64(a, b) ==
    IF ((Width - 1) \in a) # ((Width - 1) \in b)
    THEN (Width - 1) \in a
    ELSE \E k \in b \ a : \A j \in (k + 1)..(Width - 1) : (j \in a) = (j \in b)

\* no wait has been computed
NoBackoff ==
    /\ delayNs = 0
    /\ retries = 0
    /\ idx = 0
    /\ wait64 = Zero64
    /\ prevWait64 = Zero64

\* the fields of a Registrar on which neither Start nor Stop has been called
Unstarted ==
    /\ pc = [t \in Threads |-> "init"]
    /\ attempt = [t \in RetryThreads |-> 0]
    /\ timerFired = [t \in RetryThreads |-> FALSE]
    /\ regCalls = [t \in RetryThreads |-> 0]
    /\ waits = [t \in RetryThreads |-> <<>>]
    /\ result = [t \in RetryThreads |-> "none"]
    /\ ctxDone = FALSE
    /\ stopHeartbeat = FALSE
    /\ wg = 0
    /\ tickReady = FALSE
    /\ ticks = 0
    /\ hbCalls = 0
    /\ hbErr = "none"
    /\ healthy = FALSE
    /\ deregCalls = 0
    /\ deregResult = "none"
    /\ closeCalls = 0
    /\ gauge = -1
    /\ ctxLogged = FALSE
    /\ cancelledInWait = [t \in RetryThreads |-> FALSE]
    /\ stopAt = "none"

\* a client as its constructor leaves it: the HTTP client holds no connection,
\* the gRPC client holds the connection grpc.NewClient returned (idle)
NewClient(kind) ==
    /\ transport = kind
    /\ connNil = (kind = "http")
    /\ connState = "IDLE"
    /\ closeErr = "none"
    /\ closes = 0
    /\ clientCalls = 0
    /\ lastCall = "none"
    /\ callErr = "none"

\* the Registrar NewRegistrar returned for an accepted configuration
Init ==
    /\ MaxRetries \in 0..RetriesBound
    /\ RetryDelay \in 0..DelayBound
    /\ cfg = AcceptedCfg(MaxRetries, RetryDelay)
    /\ newOut = NewRegistrar(cfg)
    /\ NewClient(cfg.RegistryType)
    /\ NoBackoff
    /\ Unstarted

\* ------------------------------------------------------ registerWithRetry

\* Start calls registerWithRetry(ctx): i := 0 and the first loop-head test
StartBegin ==
    /\ pc["start"] = "init"
    /\ RetryIteration("start", 0, 0)
    /\ waits' = [waits EXCEPT !["start"] = <<>>]
    /\ UNCHANGED <<cfgVars, healthy, libVars, timerFired, cancelledInWait, ctxDone, wg, stopVars,
                   tickVars, ctxLogged>>

\* client.Register returns to caller t; err == nil returns nil, otherwise
\* the caller enters the select on time.After(backoff) and ctx.Done()
RegReturn(t) ==
    /\ pc[t] = "reg_call"
    /\ \E ok \in Outcomes :
         IF ok
         THEN /\ ReturnTo(t, "ok")
              /\ UNCHANGED <<waits, timerFired>>
         ELSE /\ pc' = [pc EXCEPT ![t] = "wait"]
              /\ waits' = [waits EXCEPT ![t] = Append(@, Backoff(attempt[t]))]
              /\ timerFired' = [timerFired EXCEPT ![t] = FALSE]
              /\ UNCHANGED <<result, gauge>>
    /\ UNCHANGED <<cfgVars, healthy, libVars, attempt, regCalls, cancelledInWait, ctxDone, wg,
                   stopVars, tickVars, ctxLogged>>

\* the backoff timer of caller t elapses: its channel becomes ready
TimerFire(t) ==
    /\ pc[t] = "wait"
    /\ ~timerFired[t]
    /\ timerFired' = [timerFired EXCEPT ![t] = TRUE]
    /\ UNCHANGED <<cfgVars, healthy, libVars, pc, attempt, regCalls, waits, result, cancelledInWait,
                   ctxDone, wg, stopVars, tickVars, gauge, ctxLogged>>

\* the select takes the time.After branch: i++ and the next loop-head test
WaitTimer(t) ==
    /\ pc[t] = "wait"
    /\ timerFired[t]
    /\ RetryIteration(t, attempt[t] + 1, regCalls[t])
    /\ timerFired' = [timerFired EXCEPT ![t] = FALSE]
    /\ cancelledInWait' = [cancelledInWait EXCEPT ![t] = FALSE]
    /\ UNCHANGED <<cfgVars, healthy, libVars, waits, ctxDone, wg, stopVars, tickVars, ctxLogged>>

\* a ctx.Done() branch without its return: the for loop goes on silently
WaitCancelContinue(t) ==
    /\ pc[t] = "wait"
    /\ ctxDone
    /\ RetryIteration(t, attempt[t] + 1, regCalls[t])
    /\ timerFired' = [timerFired EXCEPT ![t] = FALSE]
    /\ UNCHANGED <<cfgVars, healthy, libVars, waits, cancelledInWait, ctxDone, wg, stopVars,
                   tickVars, ctxLogged>>

\* the select takes the ctx.Done() branch: return the cancellation error
WaitCancel(t) ==
    /\ pc[t] = "wait"
    /\ ctxDone
    /\ ReturnTo(t, CancelError)
    /\ timerFired' = [timerFired EXCEPT ![t] = FALSE]
    /\ UNCHANGED <<cfgVars, healthy, libVars, attempt, regCalls, waits, cancelledInWait, ctxDone, wg,
                   stopVars, tickVars, ctxLogged>>

\* ------------------------------------------------------------------ Start

\* a Start that launches the heartbeat loop only after a successful registration
StartLaunchOnlyOnSuccess ==
    /\ pc["start"] = "launch"
    /\ IF result["start"] = "ok"
       THEN /\ wg' = wg + 1
            /\ pc' = [pc EXCEPT !["start"] = "returned", !["loop"] = "select"]
       ELSE /\ wg' = wg
            /\ pc' = [pc EXCEPT !["start"] = "returned"]
    /\ UNCHANGED <<cfgVars, healthy, libVars, retryVars, ctxDone, stopVars, tickVars, gauge,
                   ctxLogged>>

\* r.wg.Add(1); go r.runHeartbeatLoop(ctx); Start returns
StartLaunch ==
    /\ pc["start"] = "launch"
    /\ wg' = wg + 1
    /\ pc' = [pc EXCEPT !["start"] = "returned", !["loop"] = "select"]
    /\ UNCHANGED <<cfgVars, healthy, libVars, retryVars, ctxDone, stopVars, tickVars, gauge, ctxLogged>>

\* ------------------------------------------------------- runHeartbeatLoop

\* the loop's ticker exists from its creation until the deferred ticker.Stop()
TickerRunning == pc["loop"] \notin {"init", "exited"}

\* the ticker delivers a tick into ticker.C (capacity 1)
Tick ==
    /\ TickerRunning
    /\ ~tickReady
    /\ ticks < MaxTicks
    /\ tickReady' = TRUE
    /\ ticks' = ticks + 1
    /\ UNCHANGED <<cfgVars, healthy, libVars, pc, retryVars, ctxDone, wg, stopVars, hbCalls,
                   hbErr, gauge, ctxLogged>>

\* a loop that sends a heartbeat on every pass of the select, tick or no tick
LoopTickWithoutTick ==
    /\ pc["loop"] = "select"
    /\ tickReady' = FALSE
    /\ hbCalls' = hbCalls + 1
    /\ hbErr' = "none"
    /\ pc' = [pc EXCEPT !["loop"] = "hb_call"]
    /\ UNCHANGED <<cfgVars, healthy, libVars, retryVars, ctxDone, wg, stopVars, ticks, gauge,
                   ctxLogged>>

\* a loop that, while the gauge is 0, re-registers on a tick without a heartbeat
LoopTickRegistersWhenUnregistered ==
    /\ pc["loop"] = "select"
    /\ tickReady
    /\ tickReady' = FALSE
    /\ IF gauge = 0
       THEN /\ RetryIteration("loop", 0, 0)
            /\ waits' = [waits EXCEPT !["loop"] = <<>>]
            /\ cancelledInWait' = [cancelledInWait EXCEPT !["loop"] = FALSE]
            /\ UNCHANGED <<hbCalls, hbErr>>
       ELSE /\ hbCalls' = hbCalls + 1
            /\ hbErr' = "none"
            /\ pc' = [pc EXCEPT !["loop"] = "hb_call"]
            /\ UNCHANGED <<attempt, regCalls, waits, result, cancelledInWait, gauge>>
    /\ UNCHANGED <<cfgVars, healthy, libVars, timerFired, ctxDone, wg, stopVars, ticks,
                   ctxLogged>>

\* case <-ticker.C: issue client.SendHeartbeat
LoopTick ==
    /\ pc["loop"] = "select"
    /\ tickReady
    /\ tickReady' = FALSE
    /\ hbCalls' = hbCalls + 1
    /\ hbErr' = "none"
    /\ pc' = [pc EXCEPT !["loop"] = "hb_call"]
    /\ UNCHANGED <<cfgVars, healthy, libVars, retryVars, ctxDone, wg, stopVars, ticks, gauge,
                   ctxLogged>>

\* a failed heartbeat answered by one bare Register attempt (the last index)
HbReturnSingleAttempt ==
    /\ pc["loop"] = "hb_call"
    /\ \E ok \in Outcomes :
         IF ok
         THEN /\ hbErr' = "ok"
              /\ gauge' = 1
              /\ pc' = [pc EXCEPT !["loop"] = "select"]
              /\ UNCHANGED <<attempt, regCalls, waits, result, cancelledInWait>>
         ELSE /\ hbErr' = "fail"
              /\ RetryIteration("loop", IF MaxRetries > 0 THEN MaxRetries - 1 ELSE 0, 0)
              /\ waits' = [waits EXCEPT !["loop"] = <<>>]
              /\ cancelledInWait' = [cancelledInWait EXCEPT !["loop"] = FALSE]
    /\ UNCHANGED <<cfgVars, healthy, libVars, timerFired, ctxDone, wg, stopVars, tickReady, ticks,
                   hbCalls, ctxLogged>>

\* a successful heartbeat that leaves the gauge as it was
HbReturnKeepsGauge ==
    /\ pc["loop"] = "hb_call"
    /\ \E ok \in Outcomes :
         IF ok
         THEN /\ hbErr' = "ok"
              /\ gauge' = gauge
              /\ pc' = [pc EXCEPT !["loop"] = "select"]
              /\ UNCHANGED <<attempt, regCalls, waits, result, cancelledInWait>>
         ELSE /\ hbErr' = "fail"
              /\ RetryIteration("loop", 0, 0)
              /\ waits' = [waits EXCEPT !["loop"] = <<>>]
              /\ cancelledInWait' = [cancelledInWait EXCEPT !["loop"] = FALSE]
    /\ UNCHANGED <<cfgVars, healthy, libVars, timerFired, ctxDone, wg, stopVars, tickReady, ticks,
                   hbCalls, ctxLogged>>

\* client.SendHeartbeat returns: success sets the gauge to 1; failure calls
\* registerWithRetry(ctx) (i := 0 and the first loop-head test)
HbReturn ==
    /\ pc["loop"] = "hb_call"
    /\ \E ok \in Outcomes :
         IF ok
         THEN /\ hbErr' = "ok"
              /\ gauge' = 1
              /\ pc' = [pc EXCEPT !["loop"] = "select"]
              /\ UNCHANGED <<attempt, regCalls, waits, result, cancelledInWait>>
         ELSE /\ hbErr' = "fail"
              /\ RetryIteration("loop", 0, 0)
              /\ waits' = [waits EXCEPT !["loop"] = <<>>]
              /\ cancelledInWait' = [cancelledInWait EXCEPT !["loop"] = FALSE]
    /\ UNCHANGED <<cfgVars, healthy, libVars, timerFired, ctxDone, wg, stopVars, tickReady, ticks,
                   hbCalls, ctxLogged>>

\* a loop exit that forgets the deferred r.wg.Done()
WgDoneMissing(n) == n

\* the deferred r.wg.Done()
WgDone(n) == n - 1

\* case <-r.stopHeartbeat: return (deferred ticker.Stop() and wg.Done())
LoopStop ==
    /\ pc["loop"] = "select"
    /\ stopHeartbeat
    /\ pc' = [pc EXCEPT !["loop"] = "exited"]
    /\ wg' = WgDone(wg)
    /\ UNCHANGED <<cfgVars, healthy, libVars, retryVars, ctxDone, stopVars, tickVars, gauge, ctxLogged>>

\* case <-ctx.Done(): log only; there is no return, the for loop goes on
LoopCtx ==
    /\ pc["loop"] = "select"
    /\ ctxDone
    /\ ctxLogged' = TRUE
    /\ UNCHANGED <<cfgVars, healthy, libVars, pc, retryVars, ctxDone, wg, stopVars, tickVars, gauge>>

\* ------------------------------------------------------------------- Stop

\* when the caller invokes Stop: after Start has returned
StopCallable == pc["start"] = "returned"

\* close(r.stopHeartbeat)
StopBegin ==
    /\ pc["stop"] = "init"
    /\ StopCallable
    /\ stopHeartbeat' = TRUE
    /\ stopAt' = pc["loop"]
    /\ pc' = [pc EXCEPT !["stop"] = "wg_wait"]
    /\ UNCHANGED <<cfgVars, healthy, libVars, retryVars, ctxDone, wg, deregCalls, deregResult,
                   closeCalls, tickVars, gauge, ctxLogged>>

\* a Stop without the r.wg.Wait() barrier
WgWaitNoBarrier(n) == TRUE

\* r.wg.Wait() unblocks when the counter is zero
WgWaitReady(n) == n = 0

\* a Stop that deregisters only an instance recorded as registered
StopWaitDoneSkipUnregistered ==
    /\ pc["stop"] = "wg_wait"
    /\ WgWaitReady(wg)
    /\ IF gauge = 1
       THEN /\ deregCalls' = deregCalls + 1
            /\ pc' = [pc EXCEPT !["stop"] = "dereg_call"]
       ELSE /\ deregCalls' = deregCalls
            /\ pc' = [pc EXCEPT !["stop"] = "closing"]
    /\ UNCHANGED <<cfgVars, healthy, libVars, retryVars, ctxDone, wg, stopHeartbeat, deregResult,
                   closeCalls, stopAt, tickVars, gauge, ctxLogged>>

\* r.wg.Wait() returns; issue client.Deregister
StopWaitDone ==
    /\ pc["stop"] = "wg_wait"
    /\ WgWaitReady(wg)
    /\ deregCalls' = deregCalls + 1
    /\ pc' = [pc EXCEPT !["stop"] = "dereg_call"]
    /\ UNCHANGED <<cfgVars, healthy, libVars, retryVars, ctxDone, wg, stopHeartbeat, deregResult,
                   closeCalls, stopAt, tickVars, gauge, ctxLogged>>

\* a Stop that returns early when client.Deregister fails
DeregReturnAbortOnFailure ==
    /\ pc["stop"] = "dereg_call"
    /\ \E ok \in Outcomes :
         /\ deregResult' = IF ok THEN "ok" ELSE "fail"
         /\ pc' = [pc EXCEPT !["stop"] = IF ok THEN "closing" ELSE "stopped"]
    /\ UNCHANGED <<cfgVars, healthy, libVars, retryVars, ctxDone, wg, stopHeartbeat, deregCalls,
                   closeCalls, stopAt, tickVars, gauge, ctxLogged>>

\* client.Deregister returns; success and failure are only logged
DeregReturn ==
    /\ pc["stop"] = "dereg_call"
    /\ \E ok \in Outcomes : deregResult' = IF ok THEN "ok" ELSE "fail"
    /\ pc' = [pc EXCEPT !["stop"] = "closing"]
    /\ UNCHANGED <<cfgVars, healthy, libVars, retryVars, ctxDone, wg, stopHeartbeat, deregCalls,
                   closeCalls, stopAt, tickVars, gauge, ctxLogged>>

\* r.client.Close(); gauge.Set(0); Stop returns
StopClose ==
    /\ pc["stop"] = "closing"
    /\ closeCalls' = closeCalls + 1
    /\ gauge' = 0
    /\ pc' = [pc EXCEPT !["stop"] = "stopped"]
    /\ UNCHANGED <<cfgVars, healthy, libVars, retryVars, ctxDone, wg, stopHeartbeat, deregCalls,
                   deregResult, stopAt, tickVars, ctxLogged>>

\* ------------------------------------------------------------ environment

\* the registry becomes available for good: from now on every call succeeds
BecomeHealthy ==
    /\ ~healthy
    /\ healthy' = TRUE
    /\ UNCHANGED <<cfgVars, libVars, pc, retryVars, ctxDone, wg, stopVars, tickVars,
                   gauge, ctxLogged>>

\* the owner of the outer context cancels it
CancelCtx ==
    /\ ~ctxDone
    /\ ctxDone' = TRUE
    /\ cancelledInWait' = [t \in RetryThreads |-> pc[t] = "wait"]
    /\ UNCHANGED <<cfgVars, healthy, libVars, pc, attempt, timerFired, regCalls, waits, result, wg,
                   stopVars, tickVars, gauge, ctxLogged>>

\* ------------------------------------------------------------------- Next
Next ==
    \/ StartBegin
    \/ \E t \in RetryThreads : RegReturn(t)
    \/ \E t \in RetryThreads : TimerFire(t)
    \/ \E t \in RetryThreads : WaitTimer(t)
    \/ \E t \in RetryThreads : WaitCancel(t)
    \/ StartLaunch
    \/ Tick
    \/ LoopTick
    \/ HbReturn
    \/ LoopStop
    \/ LoopCtx
    \/ StopBegin
    \/ StopWaitDone
    \/ DeregReturn
    \/ StopClose
    \/ CancelCtx
    \/ BecomeHealthy

Spec == Init /\ [][Next]_vars

\* ------------------------------------------- Stop from another goroutine

\* Start has been called and has not returned
StartRunning == pc["start"] \in {"reg_call", "wait", "launch"}

\* close(r.stopHeartbeat) by a Stop that another goroutine calls while Start
\* is still running
StopBeginEarly ==
    /\ pc["stop"] = "init"
    /\ StartRunning
    /\ stopHeartbeat' = TRUE
    /\ stopAt' = pc["loop"]
    /\ pc' = [pc EXCEPT !["stop"] = "wg_wait"]
    /\ UNCHANGED <<cfgVars, healthy, libVars, retryVars, ctxDone, wg, deregCalls, deregResult,
                   closeCalls, tickVars, gauge, ctxLogged>>

ConcurrentNext ==
    \/ Next
    \/ StopBeginEarly

ConcurrentSpec == Init /\ [][ConcurrentNext]_vars

\* ------------------------------------------------------------ NewRegistrar

\* before construction: a configuration to try, no Registrar yet
CtorInit ==
    /\ cfg \in CfgInputs
    /\ newOut = "pending"
    /\ MaxRetries = 0
    /\ RetryDelay = 0
    /\ NewClient("http")
    /\ NoBackoff
    /\ Unstarted

\* NewRegistrar(instance, cfg) returns; the Registrar keeps cfg
NewRegistrarCall ==
    /\ newOut = "pending"
    /\ newOut' = NewRegistrar(cfg)
    /\ IF newOut' = "registrar"
       THEN /\ MaxRetries' = cfg.MaxRetries
            /\ RetryDelay' = cfg.RetryDelay
            /\ transport' = cfg.RegistryType
            /\ connNil' = (cfg.RegistryType = "http")
       ELSE UNCHANGED <<MaxRetries, RetryDelay, transport, connNil>>
    /\ UNCHANGED <<cfg, connState, closeErr, closes, clientCalls, lastCall, callErr,
                   backoffVars, runVars>>

CtorNext == NewRegistrarCall

CtorSpec == CtorInit /\ [][CtorNext]_vars

\* --------------------------------------------------------- registry.Client

ConnStates == {"IDLE", "CONNECTING", "READY", "TRANSIENT_FAILURE", "SHUTDOWN"}

\* the methods of registry.Client other than Close
ClientMethods == {"Register", "Deregister", "SendHeartbeat", "GetHealthyServices"}

\* grpc.ClientConn.Close: shuts the connection down; on a connection that is
\* already shut down it returns ErrClientConnClosing
ConnClose(st) ==
    [state |-> "SHUTDOWN",
     err |-> IF st = "SHUTDOWN" THEN "ErrClientConnClosing" ELSE "nil"]

\* a gRPC Close that does not look at the connection's state
GrpcCloseNoStateCheck(isNil, st) ==
    IF ~isNil THEN ConnClose(st) ELSE [state |-> st, err |-> "nil"]

\* grpcClient.Close
GrpcClose(isNil, st) ==
    IF ~isNil /\ st # "SHUTDOWN" THEN ConnClose(st) ELSE [state |-> st, err |-> "nil"]

\* httpClient.Close: return nil
HttpClose(st) == [state |-> st, err |-> "nil"]

\* a client of either transport, just constructed; a gRPC client may also be
\* one whose connection was never opened
ClientInit ==
    /\ transport \in {"http", "grpc"}
    /\ connNil \in (IF transport = "http" THEN {TRUE} ELSE BOOLEAN)
    /\ connState = "IDLE"
    /\ closeErr = "none"
    /\ closes = 0
    /\ clientCalls = 0
    /\ lastCall = "none"
    /\ callErr = "none"
    /\ MaxRetries = 0
    /\ RetryDelay = 0
    /\ cfg = AcceptedCfg(0, 0)
    /\ newOut = "registrar"
    /\ NoBackoff
    /\ Unstarted

\* Register, SendHeartbeat, Deregister or GetHealthyServices on the client:
\* an open gRPC connection moves between its states, a shut down one stays so
\* and fails the call; the HTTP client keeps no state and works after Close
ClientCall ==
    /\ clientCalls < MaxClientCalls
    /\ ~(transport = "grpc" /\ connNil)
    /\ clientCalls' = clientCalls + 1
    /\ lastCall' \in ClientMethods
    /\ callErr' \in (IF transport = "grpc" /\ connState = "SHUTDOWN"
                     THEN {"error"} ELSE {"nil", "error"})
    /\ IF transport = "grpc"
       THEN connState' \in (IF connState = "SHUTDOWN" THEN {"SHUTDOWN"}
                            ELSE ConnStates \ {"SHUTDOWN"})
       ELSE connState' = connState
    /\ UNCHANGED <<cfgVars, ctorVars, transport, connNil, closeErr, closes,
                   backoffVars, runVars>>

\* Close on the client
ClientClose ==
    /\ closes < MaxCloses
    /\ closes' = closes + 1
    /\ LET r == IF transport = "grpc" THEN GrpcClose(connNil, connState)
                ELSE HttpClose(connState)
       IN /\ connState' = r.state
          /\ closeErr' = r.err
    /\ UNCHANGED <<cfgVars, ctorVars, transport, connNil, clientCalls, lastCall,
                   callErr, backoffVars, runVars>>

ClientNext ==
    \/ ClientCall
    \/ ClientClose

ClientSpec == ClientInit /\ [][ClientNext]_vars

\* Fairness: every registry call returns, every timer elapses, a thread that
\* can take a step is scheduled, and a select that is entered again and again
\* with r.stopHeartbeat ready eventually takes that branch (Go chooses
\* uniformly at random among the ready branches).
Fairness ==
    /\ \A t \in RetryThreads :
          /\ WF_vars(RegReturn(t))
          /\ WF_vars(TimerFire(t))
          /\ WF_vars(WaitTimer(t))
    /\ WF_vars(StartBegin)
    /\ WF_vars(StartLaunch)
    /\ WF_vars(HbReturn)
    /\ SF_vars(LoopStop)
    /\ WF_vars(StopWaitDone)
    /\ WF_vars(DeregReturn)
    /\ WF_vars(StopClose)

FairSpec == Spec /\ Fairness

\* Fairness of the ticker and of a select whose tick branch stays ready: the
\* ticker keeps delivering ticks and the loop eventually takes a pending one.
RecoveryFairness ==
    /\ Fairness
    /\ WF_vars(Tick)
    /\ WF_vars(LoopTick)

RecoverySpec == Spec /\ RecoveryFairness

TypeOK ==
    /\ MaxRetries \in 0..RetriesBound
    /\ RetryDelay \in 0..DelayBound
    /\ pc["start"] \in {"init", "reg_call", "wait", "launch", "returned"}
    /\ pc["loop"] \in {"init", "select", "hb_call", "reg_call", "wait", "exited"}
    /\ pc["stop"] \in {"init", "wg_wait", "dereg_call", "closing", "stopped"}
    /\ \A t \in RetryThreads : result[t] \in {"none", "ok", "exhausted", "cancelled"}
    /\ wg \in 0..1
    /\ gauge \in {-1, 0, 1}
    /\ hbErr \in {"none", "ok", "fail"}
    /\ healthy \in BOOLEAN

\* ------------------------------------------- the backoff wait in 64 bits

\* the delays tried: 0, 1ns, 1ms and 1s
DelayInputs == {0, 1, 1000000, 1000000000}

\* a run of registerWithRetry in which every attempt fails, before attempt 0
BackoffInit ==
    /\ delayNs \in DelayInputs
    /\ retries \in 0..ShiftBound
    /\ idx = 0
    /\ wait64 = Zero64
    /\ prevWait64 = Zero64
    /\ MaxRetries = 0
    /\ RetryDelay = 0
    /\ cfg = AcceptedCfg(0, 0)
    /\ newOut = "registrar"
    /\ NewClient("http")
    /\ Unstarted

\* attempt idx has failed: its wait is computed and handed to time.After; i++
BackoffStep ==
    /\ idx < retries
    /\ wait64' = Wait64(delayNs, idx)
    /\ prevWait64' = wait64
    /\ idx' = idx + 1
    /\ UNCHANGED <<cfgVars, ctorVars, clientVars, delayNs, retries, runVars>>

BackoffNext == BackoffStep

BackoffSpec == BackoffInit /\ [][BackoffNext]_vars

\* ------------------------------------------------------------------ claims

\* a run of registerWithRetry by caller t has returned
RunReturned(t) == result[t] # "none"

\* C1: for MaxRetries = n >= 1, a run in which every Register call failed and
\* the outer context was not cancelled has issued exactly n Register calls and
\* returned the retries-exhausted error; no run issues more than n calls.
C1_AllFailExactlyNCalls ==
    \A t \in RetryThreads :
        /\ regCalls[t] <= MaxRetries
        /\ (MaxRetries >= 1 /\ RunReturned(t) /\ result[t] # "ok" /\ ~ctxDone)
              => (result[t] = "exhausted" /\ regCalls[t] = MaxRetries)

C1_Witness ==
    /\ MaxRetries = 3
    /\ result["start"] = "exhausted"
    /\ regCalls["start"] = 3
    /\ ~ctxDone

\* C2: for MaxRetries = 0, a run that has returned issued exactly one Register
\* call (and entered no wait).
C2_ZeroRetriesOneCall ==
    \A t \in RetryThreads :
        (MaxRetries = 0 /\ RunReturned(t))
            => (regCalls[t] = 1 /\ waits[t] = <<>>)

\* C3: waits happen only between attempts: wait k of a run lasts
\* RetryDelay * 2^(k-1), and a run that returned the retries-exhausted error
\* after n failed attempts entered exactly n-1 waits.
C3_WaitsOnlyBetweenAttempts ==
    \A t \in RetryThreads :
        /\ \A k \in 1..Len(waits[t]) : waits[t][k] = RetryDelay * (2 ^ (k - 1))
        /\ (result[t] = "exhausted" /\ regCalls[t] >= 1)
              => Len(waits[t]) = regCalls[t] - 1

\* C4 (as claimed): when the outer context is cancelled during a backoff
\* wait, the step that ends the wait returns the cancellation error and
\* issues no Register call.
C4_CancelInWaitAlwaysAborts ==
    [][\A t \in RetryThreads :
          (cancelledInWait[t] /\ pc[t] = "wait" /\ pc'[t] # "wait")
              => (result'[t] = "cancelled" /\ regCalls'[t] = regCalls[t])]_vars

\* C4 (amended): when the outer context is cancelled during a backoff wait and
\* the backoff timer has not elapsed when the select is decided, the step
\* that ends the wait returns the cancellation error, which is not the
\* retries-exhausted error, and issues no Register call.
C4_CancelInWaitAbortsUnlessTimer ==
    [][\A t \in RetryThreads :
          (cancelledInWait[t] /\ pc[t] = "wait" /\ ~timerFired[t] /\ pc'[t] # "wait")
              => /\ result'[t] = "cancelled"
                 /\ result'[t] # ExhaustedError
                 /\ regCalls'[t] = regCalls[t]
                 /\ pc'[t] = AfterRetry(t)]_vars

C4_Witness ==
    /\ cancelledInWait["start"]
    /\ result["start"] = "cancelled"
    /\ regCalls["start"] < MaxRetries

\* caller t issues a client.Register call in this step
IssuesRegister(t) == pc[t] # "reg_call" /\ pc'[t] = "reg_call"

\* a registry call of the heartbeat loop is in flight or still to come
LoopActive == pc["loop"] \in {"select", "hb_call", "reg_call", "wait"}

\* C5: once Stop has issued its Deregister call the heartbeat loop has exited:
\* no heartbeat or re-registration call of the loop is in flight or pending.
C5_DeregisterAfterLoopExit ==
    deregCalls > 0 => (pc["loop"] = "exited" /\ ~LoopActive /\ wg = 0)

C5_Witness ==
    /\ pc["stop"] = "dereg_call"
    /\ stopAt = "reg_call"
    /\ pc["loop"] = "exited"

\* C6: the number of Deregister calls is one once Stop has passed its barrier
\* and zero before, whatever the recorded state and whether or not the outer
\* context is cancelled.
C6_ExactlyOneDeregisterPerStop ==
    deregCalls = IF pc["stop"] \in {"dereg_call", "closing", "stopped"} THEN 1 ELSE 0

C6_Witness ==
    /\ pc["stop"] = "stopped"
    /\ deregCalls = 1
    /\ stopAt = "wait"
    /\ result["loop"] # "ok"

\* C7: the client is closed exactly once, by a Stop that has run to its end,
\* after the loop has exited and the Deregister call has returned (ok or fail).
C7_CloseOnceAfterDeregister ==
    /\ closeCalls = IF pc["stop"] = "stopped" THEN 1 ELSE 0
    /\ closeCalls > 0 =>
          /\ pc["loop"] = "exited"
          /\ deregCalls = 1
          /\ deregResult \in {"ok", "fail"}

C7_Witness ==
    /\ pc["stop"] = "stopped"
    /\ closeCalls = 1
    /\ deregResult = "fail"

\* C8: under Fairness, a Stop that has begun eventually returns.
C8_StopCompletes == (pc["stop"] = "wg_wait") ~> (pc["stop"] = "stopped")

C8_Witness ==
    /\ pc["stop"] = "stopped"
    /\ deregResult = "fail"
    /\ stopAt = "wait"
    /\ ctxDone

\* C9: once the outer context is cancelled the loop issues no heartbeat and no
\* register call.
C9_NoCallsAfterCancel ==
    [][ctxDone => (hbCalls' = hbCalls /\ ~IssuesRegister("loop"))]_vars

\* C10: when Stop closed stopHeartbeat while the loop was in a backoff wait,
\* the loop issues no further register call.
C10_StopAbortsBackoffWait ==
    [][stopAt = "wait" => ~IssuesRegister("loop")]_vars

\* C11: the loop issues Register calls only in a tick whose heartbeat failed,
\* and when it is back at its select after a failed heartbeat (so before any
\* further heartbeat) a whole run of registerWithRetry has returned: success
\* after 1..MaxRetries calls, exhaustion after exactly MaxRetries calls, each
\* followed by its backoff wait, or cancellation.
C11_FailedHeartbeatRunsFullRetry ==
    /\ pc["loop"] \in {"reg_call", "wait"} => hbErr = "fail"
    /\ (pc["loop"] = "select" /\ hbErr = "fail") =>
          /\ RunReturned("loop")
          /\ result["loop"] = "exhausted" =>
                (regCalls["loop"] = MaxRetries /\ Len(waits["loop"]) = MaxRetries)
          /\ result["loop"] = "ok" => regCalls["loop"] \in 1..MaxRetries
          /\ result["loop"] = "cancelled" =>
                (ctxDone /\ regCalls["loop"] \in 1..MaxRetries)

C11_Witness ==
    /\ pc["loop"] = "select"
    /\ hbErr = "fail"
    /\ result["loop"] = "exhausted"
    /\ regCalls["loop"] = 3

\* C12: the loop exits only from its select and only when the stop signal or
\* the cancellation is there; a step that ends a heartbeat call, a Register
\* call or a backoff wait of the loop leaves the loop running.
C12_LoopExitsOnlyOnStopOrCancel ==
    [][/\ (pc["loop"] # "exited" /\ pc'["loop"] = "exited")
            => (pc["loop"] = "select" /\ (stopHeartbeat \/ ctxDone))
       /\ (pc["loop"] \in {"hb_call", "reg_call", "wait"} /\ pc'["loop"] # pc["loop"])
            => pc'["loop"] \in {"select", "reg_call", "wait"}]_vars

C12_Witness ==
    /\ pc["loop"] = "hb_call"
    /\ hbCalls = 2
    /\ result["loop"] = "exhausted"
    /\ MaxRetries >= 1

\* C13: Start has returned exactly when the heartbeat loop has been launched,
\* r.wg counts that one task while it runs, and a launched loop that is at its
\* select with a tick pending can issue the heartbeat.
C13_StartLaunchesOneLoop ==
    /\ (pc["start"] = "returned") <=> (pc["loop"] # "init")
    /\ wg = IF LoopActive THEN 1 ELSE 0
    /\ (pc["loop"] = "select" /\ tickReady) => ENABLED LoopTick

C13_Witness ==
    /\ pc["start"] = "returned"
    /\ result["start"] = "exhausted"
    /\ MaxRetries >= 1
    /\ pc["loop"] = "hb_call"
    /\ ~stopHeartbeat

\* the number of registry calls in flight
InFlight ==
    (IF pc["start"] = "reg_call" THEN 1 ELSE 0)
    + (IF pc["loop"] \in {"hb_call", "reg_call"} THEN 1 ELSE 0)
    + (IF pc["stop"] = "dereg_call" THEN 1 ELSE 0)

\* C14: with one Start followed, after it returned, by one Stop, at most one
\* registry call is in flight at any time.
C14_AtMostOneCallInFlight == InFlight <= 1

C14_Witness ==
    /\ pc["stop"] = "wg_wait"
    /\ pc["loop"] = "reg_call"
    /\ InFlight = 1

\* C15: a run that returned success after k failed attempts issued exactly
\* k+1 <= MaxRetries Register calls and entered exactly k waits, of
\* RetryDelay * 2^0 .. RetryDelay * 2^(k-1); when it is Start's run the gauge
\* is 1 when Start goes on to launch the loop.
C15_SuccessAfterKFailures ==
    \A t \in RetryThreads :
        result[t] = "ok" =>
            /\ regCalls[t] = Len(waits[t]) + 1
            /\ regCalls[t] <= MaxRetries
            /\ \A k \in 1..Len(waits[t]) : waits[t][k] = RetryDelay * (2 ^ (k - 1))
            /\ pc[t] \notin {"reg_call", "wait"}
            /\ (t = "start" /\ pc[t] = "launch") => gauge = 1

C15_Witness ==
    /\ MaxRetries = 3
    /\ RetryDelay = 1
    /\ result["start"] = "ok"
    /\ regCalls["start"] = 3
    /\ waits["start"] = <<1, 2>>
    /\ pc["start"] = "launch"
    /\ gauge = 1

\* C16: whatever registerWithRetry returned, Start goes on to launch the loop
\* and return; until the loop or Stop records something else, the gauge is 1
\* if the initial registration succeeded and 0 if it was exhausted or
\* cancelled.
C16_StartRecordsOutcome ==
    /\ RunReturned("start") => pc["start"] \in {"launch", "returned"}
    /\ pc["start"] = "launch" => ENABLED StartLaunch
    /\ (pc["start"] \in {"launch", "returned"} /\ hbCalls = 0 /\ closeCalls = 0)
          => /\ result["start"] \in {"ok", "exhausted", "cancelled"}
             /\ gauge = IF result["start"] = "ok" THEN 1 ELSE 0

C16_Witness ==
    /\ pc["start"] = "returned"
    /\ result["start"] = "cancelled"
    /\ gauge = 0
    /\ hbCalls = 0
    /\ closeCalls = 0

\* C19: when the loop is back at its select after a tick, the gauge is 1 if
\* the heartbeat succeeded or the re-registration after the failed heartbeat
\* succeeded, and 0 if both failed.
C19_GaugeAfterTick ==
    (pc["loop"] = "select" /\ hbErr # "none") =>
        gauge = IF hbErr = "ok" \/ result["loop"] = "ok" THEN 1 ELSE 0

C19_Witness ==
    /\ pc["loop"] = "select"
    /\ hbErr = "fail"
    /\ result["loop"] = "ok"
    /\ gauge = 1
    /\ hbCalls = 1
    /\ ~stopHeartbeat

\* C20: after a failed initial registration, once the registry is available
\* for good and a tick is still to come, the gauge eventually becomes 1,
\* unless the outer context is cancelled or Stop is called.
C20_RecoveryAfterFailedStart ==
    [](( /\ healthy
         /\ pc["start"] = "returned"
         /\ result["start"] # "ok"
         /\ ticks < MaxTicks )
        => <>(gauge = 1 \/ ctxDone \/ stopHeartbeat))

C20_Witness ==
    /\ MaxRetries = 0
    /\ result["start"] = "exhausted"
    /\ healthy
    /\ gauge = 1
    /\ ~ctxDone
    /\ ~stopHeartbeat

\* the configuration breaks one of the rules the claim lists
CfgRejectable(c) ==
    \/ c.HeartbeatInterval <= 0
    \/ c.CallTimeout <= 0
    \/ c.MaxRetries < 0
    \/ c.RetryDelay < 0
    \/ c.RegistryType \notin {"http", "grpc"}

\* the configuration is present, names a registry and a transport that can be
\* set up, and has positive durations
CfgOtherwiseValid(c) ==
    /\ ~c.isNil
    /\ c.RegistryURL # ""
    /\ c.HeartbeatInterval > 0
    /\ c.CallTimeout > 0
    /\ c.RegistryType \in {"http", "grpc"}
    /\ (c.RegistryType = "grpc" => ~c.dialFails)

\* C17: NewRegistrar returns an error and no Registrar for every configuration
\* with HeartbeatInterval <= 0, CallTimeout <= 0, MaxRetries < 0, RetryDelay < 0
\* or a RegistryType other than "http" and "grpc"; an otherwise valid one with
\* MaxRetries >= 0 and RetryDelay >= 0, the value 0 included, yields a
\* Registrar that keeps these settings.
C17_NewRegistrarValidation ==
    newOut # "pending" =>
        /\ CfgRejectable(cfg) => newOut # "registrar"
        /\ (CfgOtherwiseValid(cfg) /\ cfg.MaxRetries >= 0 /\ cfg.RetryDelay >= 0)
              => /\ newOut = "registrar"
                 /\ MaxRetries = cfg.MaxRetries
                 /\ RetryDelay = cfg.RetryDelay

C17_Witness ==
    /\ newOut = "registrar"
    /\ cfg.MaxRetries = 0
    /\ cfg.RetryDelay = 0
    /\ cfg.RegistryType = "grpc"

\* the client has been closed before
AlreadyClosed ==
    IF transport = "grpc" THEN connNil \/ connState = "SHUTDOWN" ELSE closes > 0

\* C18: for both transports every Close returns no error, after any calls and
\* any earlier Close, and a Close of a client that is already closed (or was
\* never opened) changes nothing in the client.
C18_CloseIdempotent ==
    [][closes' # closes =>
          /\ closeErr' = "nil"
          /\ AlreadyClosed =>
                <<transport, connNil, connState, clientCalls, lastCall, callErr>>' =
                <<transport, connNil, connState, clientCalls, lastCall, callErr>>]_vars

C18_Witness ==
    /\ transport = "grpc"
    /\ ~connNil
    /\ closes = 3
    /\ clientCalls = 2
    /\ closeErr = "nil"
    /\ connState = "SHUTDOWN"

\* C21: the backoff wait does not overflow: the wait of every attempt index
\* below MaxRetries, computed as RetryDelay * (1 << i) in int64, is not
\* negative and not smaller than the wait of the attempt before it.
C21_BackoffNeverWraps ==
    idx >= 1 =>
        /\ ~Negative64(wait64)
        /\ idx >= 2 => ~Less64(wait64, prevWait64)

\* C22 as stated: once Stop has closed the stop channel the loop starts no new
\* heartbeat call, also when a tick is ready together with the stop signal.
C22_NoHeartbeatAfterStopSignal ==
    [][stopHeartbeat => hbCalls' = hbCalls]_vars

\* C22 amended: once Stop has closed the stop channel the loop starts a new
\* heartbeat call only by taking a tick that is ready at its select together
\* with the stop signal (the select chooses between the two), one heartbeat
\* per tick taken; its only other registry calls are the Register calls of
\* the tick iteration in progress, and none is made once it has exited.
C22_HeartbeatAfterStopOnlyOnReadyTick ==
    [][stopHeartbeat =>
          /\ hbCalls' # hbCalls =>
                (pc["loop"] = "select" /\ tickReady /\ ~tickReady'
                   /\ hbCalls' = hbCalls + 1)
          /\ IssuesRegister("loop") => pc["loop"] \in {"hb_call", "wait"}
          /\ pc["loop"] = "exited" => pc'["loop"] = "exited"]_vars

C22_Witness ==
    /\ stopHeartbeat
    /\ stopAt = "select"
    /\ pc["loop"] = "hb_call"
    /\ pc["stop"] = "wg_wait"

\* C23: when Stop is invoked while Start has not returned, Deregister does not
\* begin while a Register call of Start is in flight, and no Register or
\* heartbeat call is issued after Stop has closed the registry client.
C23_StopDuringStartIsSafe ==
    [][/\ deregCalls' # deregCalls => pc["start"] # "reg_call"
       /\ closeCalls > 0 =>
             /\ hbCalls' = hbCalls
             /\ \A t \in RetryThreads : ~IssuesRegister(t)]_vars

\* C24: the loop issues a Register call only in a tick whose heartbeat has
\* just failed; a tick taken at the select always sends a heartbeat, whatever
\* the recorded state, and a successful heartbeat sets the gauge to 1 without
\* any Register call.
C24_RegisterOnlyAfterFailedHeartbeat ==
    [][/\ IssuesRegister("loop") =>
             /\ pc["loop"] \in {"hb_call", "wait"}
             /\ hbErr' = "fail"
       /\ (pc["loop"] = "select" /\ tickReady /\ ~tickReady') =>
             /\ pc'["loop"] = "hb_call"
             /\ hbCalls' = hbCalls + 1
             /\ regCalls' = regCalls
       /\ (pc["loop"] = "hb_call" /\ hbErr' = "ok") =>
             /\ gauge' = 1
             /\ regCalls' = regCalls
             /\ pc'["loop"] = "select"]_vars

C24_Witness ==
    /\ result["start"] = "exhausted"
    /\ MaxRetries > 0
    /\ hbCalls = 2
    /\ hbErr = "ok"
    /\ gauge = 1
    /\ regCalls["loop"] = MaxRetries
    /\ result["loop"] = "exhausted"
====
